---- MODULE Spec2Model ----
(***************************************************************************)
(* Model of the suite runner of mwitkow/go-suite (src/suite.go): the       *)
(* function Run, the method filter and the context holder Suite.T/SetT,    *)
(* driven through the host facility *testing.T (Run, Skip, Fail, FailNow,  *)
(* Fatalf) whose documented behaviour is: Skip/FailNow/Fatalf end the      *)
(* calling goroutine with runtime.Goexit, which runs the deferred calls    *)
(* registered so far; a failure of a sub-test marks its parent failed; an  *)
(* unrecovered panic of a test goroutine ends the process after that       *)
(* goroutine's deferred calls have run; os.Exit ends the process at once.  *)
(***************************************************************************)
EXTENDS Integers, Sequences, FiniteSets, TLC

\* ------------------------------------------------------------------ bounds

\* The largest number of user-written methods a suite of the model declares.
MaxTests == 2

\* ------------------------------------------------------------------ names
\* A name is the sequence of its characters, so that prefix and pattern
\* matching are computed on the text.

nSetupSuite == <<"S","e","t","u","p","S","u","i","t","e">>
nTearDownSuite == <<"T","e","a","r","D","o","w","n","S","u","i","t","e">>
nSetupTest == <<"S","e","t","u","p","T","e","s","t">>
nTearDownTest == <<"T","e","a","r","D","o","w","n","T","e","s","t">>
nBeforeTest == <<"B","e","f","o","r","e","T","e","s","t">>
nAfterTest == <<"A","f","t","e","r","T","e","s","t">>
nT == <<"T">>
nSetT == <<"S","e","t","T">>
nNonTestMethod == <<"N","o","n","T","e","s","t","M","e","t","h","o","d">>
nTestBad == <<"T","e","s","t","B","a","d">>
nTestOne == <<"T","e","s","t","O","n","e">>
nTestTwo == <<"T","e","s","t","T","w","o">>

\* The six optional capabilities (interfaces) a suite may implement.
Hooks == {"SetupSuite", "TearDownSuite", "SetupTest", "TearDownTest", "BeforeTest", "AfterTest"}

HookName(h) ==
  CASE h = "SetupSuite" -> nSetupSuite
    [] h = "TearDownSuite" -> nTearDownSuite
    [] h = "SetupTest" -> nSetupTest
    [] h = "TearDownTest" -> nTearDownTest
    [] h = "BeforeTest" -> nBeforeTest
    [] h = "AfterTest" -> nAfterTest

\* The user-written methods a suite of the model may declare (as the fixtures
\* of the tests do): a helper, a test with an extra parameter, two tests.
UserMethods == {nNonTestMethod, nTestBad, nTestOne, nTestTwo}

\* Every method a suite type may have, in reflect's order (sorted by name),
\* with reflect's Type.NumIn() (the receiver counts as one).
AllMethods ==
  << [name |-> nAfterTest, numIn |-> 3],
     [name |-> nBeforeTest, numIn |-> 3],
     [name |-> nNonTestMethod, numIn |-> 1],
     [name |-> nSetT, numIn |-> 2],
     [name |-> nSetupSuite, numIn |-> 1],
     [name |-> nSetupTest, numIn |-> 1],
     [name |-> nT, numIn |-> 1],
     [name |-> nTearDownSuite, numIn |-> 1],
     [name |-> nTearDownTest, numIn |-> 1],
     [name |-> nTestBad, numIn |-> 2],
     [name |-> nTestOne, numIn |-> 1],
     [name |-> nTestTwo, numIn |-> 1] >>

\* The static type name of the suite (methodFinder.Elem().Name()).
SuiteTypeName == "SuiteTester"

\* The method set of a suite type embedding Suite, implementing the
\* capabilities caps and declaring the user methods user.
MethodSet(caps, user) ==
  LET names == user \cup {HookName(h) : h \in caps} \cup {nT, nSetT}
      keep(m) == m.name \in names
  IN SelectSeq(AllMethods, keep)

\* ------------------------------------------------------------------ regexp
\* regexp.MatchString on the patterns of the model: literals, a leading ^,
\* a trailing $, and groups; a pattern with unbalanced parentheses does not
\* compile.

RECURSIVE Balanced(_, _)
Balanced(expr, depth) ==
  IF expr = <<>> THEN depth = 0
  ELSE IF Head(expr) = "(" THEN Balanced(Tail(expr), depth + 1)
  ELSE IF Head(expr) = ")" THEN depth > 0 /\ Balanced(Tail(expr), depth - 1)
  ELSE Balanced(Tail(expr), depth)

IsPrefix(p, s) == Len(p) <= Len(s) /\ SubSeq(s, 1, Len(p)) = p

IsSuffix(p, s) == Len(p) <= Len(s) /\ SubSeq(s, Len(s) - Len(p) + 1, Len(s)) = p

Contains(p, s) == \E i \in 0..(Len(s) - Len(p)) : SubSeq(s, i + 1, i + Len(p)) = p

Matches(expr, s) ==
  LET notParen(c) == c \notin {"(", ")"}
      e0 == SelectSeq(expr, notParen)
      atStart == e0 /= <<>> /\ Head(e0) = "^"
      e1 == IF atStart THEN Tail(e0) ELSE e0
      atEnd == e1 /= <<>> /\ e1[Len(e1)] = "$"
      lit == IF atEnd THEN SubSeq(e1, 1, Len(e1) - 1) ELSE e1
  IN CASE atStart /\ atEnd -> lit = s
       [] atStart /\ ~atEnd -> IsPrefix(lit, s)
       [] ~atStart /\ atEnd -> IsSuffix(lit, s)
       [] OTHER -> Contains(lit, s)

MatchString(expr, s) ==
  IF Balanced(expr, 0)
  THEN [ok |-> Matches(expr, s), err |-> "nil"]
  ELSE [ok |-> FALSE, err |-> "error parsing regexp"]

\* The values of the flag -testify.m the model runs with: the default (empty),
\* a literal, an anchored prefix, an anchored suffix, one that does not compile.
Patterns ==
  { <<>>,
    <<"O","n","e">>,
    <<"^","T","e","s","t","T">>,
    <<"B","a","d","$">>,
    <<"(">> }

\* ------------------------------------------------------------------ state

VARIABLES
  suite,        \* the suite under Run: its capabilities, method set, type name
  matchMethod,  \* the flag -testify.m (src/suite.go:12)
  pc,           \* the position of Run, or how the call ended
  index,        \* the loop variable of Run
  t,            \* Suite.t, the context holder
  unwinding,    \* why the sub-unit's goroutine is running its deferred call
  events,       \* the calls made into the suite's hooks and test methods
  registered,   \* the names passed to suiteT.Run, in order
  failed,       \* the handles marked failed
  skipped,      \* the handles marked skipped
  abnormal,     \* the calls into the suite that ended by Goexit or by panic
  output,       \* the messages logged, each with the handle it was logged on
  par           \* the sub-units suspended by t.Parallel, each with its position

vars == <<suite, matchMethod, pc, index, t, unwinding, events, registered, failed, skipped, abnormal, output, par>>

\* Handles (*testing.T values): none, the one passed to Run, one per sub-unit.
NilT == [kind |-> "nil", name |-> <<>>]

SuiteT == [kind |-> "suite", name |-> <<>>]

TestT(name) == [kind |-> "test", name |-> name]

\* What a test body may do with the handle T() before it ends: return, mark
\* it failed and return (Fail, a failed assertion), Skip, FailNow, or panic.
Outcomes == {"return", "fail", "skip", "failnow", "panic"}

\* What a hook of the model may do with T(): return, Skip, FailNow, or panic.
HookOutcomes == {"return", "skip", "failnow", "panic"}

Returns(o) == o \in {"return", "fail"}

Goexits(o) == o \in {"skip", "failnow"}

\* testing: c.Fail marks the handle and its parent failed; Skip marks the
\* handle skipped. A call that does not return is noted in abnormal.
Report(o, h, hook, test) ==
  /\ failed' = IF o \in {"fail", "failnow"}
               THEN failed \cup {h} \cup (IF h.kind = "test" THEN {SuiteT} ELSE {})
               ELSE failed
  /\ skipped' = IF o = "skip" THEN skipped \cup {h} ELSE skipped
  /\ abnormal' = IF Returns(o) THEN abnormal
                 ELSE abnormal \cup {[hook |-> hook, test |-> test,
                                      how |-> IF Goexits(o) THEN "goexit" ELSE "panic"]}

\* A call into the suite: which hook or test body, within which sub-unit, the
\* handle T() returns during the call, and the arguments passed.
Event(hook, test, h, suiteName, testName) ==
  [hook |-> hook, test |-> test, handle |-> h, suiteName |-> suiteName, testName |-> testName]

NumMethod == Len(suite.methods)

Method(i) == suite.methods[i + 1]

Implements(h) == h \in suite.caps

\* src/suite.go:86-91 without line 90: the flag is not consulted.
methodFilterPrefixOnly(name) == MatchString(<<"^","T","e","s","t">>, name)

\* src/suite.go:86-91 without lines 87-89: the prefix is not required.
methodFilterPatternOnly(name) == MatchString(matchMethod, name)

\* src/suite.go:86-91 with line 90 evaluated before lines 87-89: the pattern
\* is compiled for every name.
methodFilterPatternFirst(name) ==
  LET r == MatchString(matchMethod, name)
  IN IF r.err /= "nil" THEN r
     ELSE IF ~MatchString(<<"^","T","e","s","t">>, name).ok
     THEN [ok |-> FALSE, err |-> "nil"]
     ELSE r

\* src/suite.go:86-91
methodFilter(name) ==
  IF ~MatchString(<<"^","T","e","s","t">>, name).ok
  THEN [ok |-> FALSE, err |-> "nil"]
  ELSE MatchString(matchMethod, name)

Init ==
  /\ \E caps \in SUBSET Hooks, user \in SUBSET UserMethods :
       /\ Cardinality(user) <= MaxTests
       /\ suite = [caps |-> caps, methods |-> MethodSet(caps, user), typeName |-> SuiteTypeName]
  /\ matchMethod \in Patterns
  /\ pc = "Run"
  /\ index = 0
  /\ t = NilT
  /\ unwinding = "no"
  /\ events = <<>>
  /\ registered = <<>>
  /\ failed = {}
  /\ skipped = {}
  /\ abnormal = {}
  /\ output = {}
  /\ par = <<>>

\* ------------------------------------------------------------------ Run

\* src/suite.go:33-43 with SetupSuite run in a scope of its own, so that a
\* Skip or FailNow in it ends that scope and not Run.
RunSetupSuiteOwnScope ==
  /\ pc = "Run"
  /\ t' = SuiteT
  /\ index' = 0
  /\ IF Implements("SetupSuite")
     THEN \E o \in HookOutcomes :
            /\ events' = Append(events, Event("SetupSuite", <<>>, SuiteT, "", <<>>))
            /\ Report(o, SuiteT, "SetupSuite", <<>>)
            /\ pc' = IF Returns(o) \/ Goexits(o) THEN "Loop" ELSE "crashed"
     ELSE /\ pc' = "Loop"
          /\ UNCHANGED <<events, failed, skipped, abnormal>>
  /\ UNCHANGED <<suite, matchMethod, unwinding, registered, output>>

\* src/suite.go:33-43: bind the holder, call SetupSuite, then register the
\* deferred call. A Skip or FailNow in SetupSuite ends Run's goroutine before
\* the defer statement is reached.
RunSetupSuite ==
  /\ pc = "Run"
  /\ t' = SuiteT
  /\ index' = 0
  /\ IF Implements("SetupSuite")
     THEN \E o \in HookOutcomes :
            /\ events' = Append(events, Event("SetupSuite", <<>>, SuiteT, "", <<>>))
            /\ Report(o, SuiteT, "SetupSuite", <<>>)
            /\ pc' = IF Returns(o) THEN "Loop" ELSE IF Goexits(o) THEN "goexit" ELSE "crashed"
     ELSE /\ pc' = "Loop"
          /\ UNCHANGED <<events, failed, skipped, abnormal>>
  /\ UNCHANGED <<suite, matchMethod, unwinding, registered, output>>

\* src/suite.go:46-53 and 80-82 without lines 49-52: an error of the filter
\* counts as no match.
LoopStepIgnoresError ==
  /\ pc = "Loop"
  /\ IF index >= NumMethod
     THEN /\ pc' = "TearDownSuite"
          /\ UNCHANGED index
     ELSE IF methodFilter(Method(index).name).ok
     THEN /\ pc' = "SubRun"
          /\ UNCHANGED index
     ELSE /\ pc' = "Loop"
          /\ index' = index + 1
  /\ UNCHANGED <<suite, matchMethod, t, unwinding, events, registered, failed, skipped, abnormal, output>>

\* src/suite.go:46-53 and 80-82: one turn of the loop over the method set, up
\* to the decision to register a sub-unit; past the last method Run returns
\* and its deferred call runs.
LoopStep ==
  /\ pc = "Loop"
  /\ IF index >= NumMethod
     THEN /\ pc' = "TearDownSuite"
          /\ UNCHANGED index
     ELSE LET r == methodFilter(Method(index).name)
          IN IF r.err /= "nil"
             THEN /\ pc' = "exited"
                  /\ UNCHANGED index
             ELSE IF r.ok
             THEN /\ pc' = "SubRun"
                  /\ UNCHANGED index
             ELSE /\ pc' = "Loop"
                  /\ index' = index + 1
  /\ UNCHANGED <<suite, matchMethod, t, unwinding, events, registered, failed, skipped, abnormal, output>>

\* src/suite.go:54-55: suiteT.Run registers the sub-unit and its goroutine
\* binds the holder to the sub-unit's handle.
SubRun ==
  /\ pc = "SubRun"
  /\ registered' = Append(registered, Method(index).name)
  /\ t' = TestT(Method(index).name)
  /\ unwinding' = "no"
  /\ pc' = "SetupTest"
  /\ UNCHANGED <<suite, matchMethod, index, events, failed, skipped, abnormal, output>>

\* src/suite.go:78-80 without line 79.
SubReturnNoSetT ==
  /\ UNCHANGED t
  /\ index' = index + 1
  /\ unwinding' = "no"
  /\ pc' = "Loop"

\* src/suite.go:78-80 followed by a break out of the loop when the sub-unit
\* that ended had failed.
SubReturnStopsOnFailure ==
  /\ t' = SuiteT
  /\ index' = IF TestT(Method(index).name) \in failed THEN NumMethod ELSE index + 1
  /\ unwinding' = "no"
  /\ pc' = "Loop"

\* src/suite.go:78-80: the sub-unit's goroutine has ended, suiteT.Run returns,
\* the holder is bound to suiteT and the loop goes on.
SubReturn ==
  /\ t' = SuiteT
  /\ index' = index + 1
  /\ unwinding' = "no"
  /\ pc' = "Loop"

\* The process ends on a panic that nothing recovers.
Crash ==
  /\ pc' = "crashed"
  /\ UNCHANGED <<t, index, unwinding>>

\* src/suite.go:56-58 with the defer statement of line 63 placed before them:
\* a Skip or FailNow in SetupTest is followed by the deferred call.
SetupTestAfterDefer ==
  /\ pc = "SetupTest"
  /\ IF Implements("SetupTest")
     THEN \E o \in HookOutcomes :
            /\ events' = Append(events, Event("SetupTest", Method(index).name, t, "", <<>>))
            /\ Report(o, t, "SetupTest", Method(index).name)
            /\ IF Returns(o)
               THEN pc' = "BeforeTest" /\ UNCHANGED <<t, index, unwinding>>
               ELSE IF Goexits(o)
               THEN pc' = "AfterTest" /\ unwinding' = "goexit" /\ UNCHANGED <<t, index>>
               ELSE Crash
     ELSE /\ pc' = "BeforeTest"
          /\ UNCHANGED <<t, index, unwinding, events, failed, skipped, abnormal>>
  /\ UNCHANGED <<suite, matchMethod, registered, output>>

\* src/suite.go:56-58. The deferred call of line 63 is not registered yet: a
\* Skip or FailNow here ends the sub-unit.
SetupTest ==
  /\ pc = "SetupTest"
  /\ IF Implements("SetupTest")
     THEN \E o \in HookOutcomes :
            /\ events' = Append(events, Event("SetupTest", Method(index).name, t, "", <<>>))
            /\ Report(o, t, "SetupTest", Method(index).name)
            /\ IF Returns(o)
               THEN pc' = "BeforeTest" /\ UNCHANGED <<t, index, unwinding>>
               ELSE IF Goexits(o) THEN SubReturn ELSE Crash
     ELSE /\ pc' = "BeforeTest"
          /\ UNCHANGED <<t, index, unwinding, events, failed, skipped, abnormal>>
  /\ UNCHANGED <<suite, matchMethod, registered, output>>

\* src/suite.go:59-63: BeforeTest, then the defer statement.
BeforeTest ==
  /\ pc = "BeforeTest"
  /\ IF Implements("BeforeTest")
     THEN \E o \in HookOutcomes :
            /\ events' = Append(events,
                 Event("BeforeTest", Method(index).name, t, suite.typeName, Method(index).name))
            /\ Report(o, t, "BeforeTest", Method(index).name)
            /\ IF Returns(o)
               THEN pc' = "Body" /\ UNCHANGED <<t, index, unwinding>>
               ELSE IF Goexits(o) THEN SubReturn ELSE Crash
     ELSE /\ pc' = "Body"
          /\ UNCHANGED <<t, index, unwinding, events, failed, skipped, abnormal>>
  /\ UNCHANGED <<suite, matchMethod, registered, output>>

\* fmt.Sprintf for a format whose only verb is %v, given a name.
RECURSIVE Sprintf(_, _)
Sprintf(format, arg) ==
  IF format = <<>> THEN <<>>
  ELSE IF Len(format) >= 2 /\ format[1] = "%" /\ format[2] = "v"
  THEN arg \o Sprintf(SubSeq(format, 3, Len(format)), arg)
  ELSE <<Head(format)>> \o Sprintf(Tail(format), arg)

\* The format of src/suite.go:76, "suite: too many arguments to method %v".
fmtTooManyArguments ==
  <<"s","u","i","t","e",":"," ","t","o","o"," ","m","a","n","y"," ","a","r","g","u","m","e","n","t","s"," ","t","o"," ","m","e","t","h","o","d"," ","%","v">>

\* src/suite.go:73 written NumIn() >= 1.
ArityAtLeastReceiver(m) == m.numIn >= 1

\* src/suite.go:73: the method takes the receiver and nothing else.
ArityOk(m) == m.numIn = 1

\* src/suite.go:74 inline, the deferred call skipped by a Goexit: what
\* the call of line 74 would do were lines 64-71 not deferred.
BodyCallNotDeferred ==
  \E o \in Outcomes :
    /\ events' = Append(events, Event("Body", Method(index).name, t, "", <<>>))
    /\ Report(o, t, "Body", Method(index).name)
    /\ IF Returns(o)
       THEN pc' = "AfterTest" /\ UNCHANGED <<t, index, unwinding>>
       ELSE IF Goexits(o)
       THEN t' = SuiteT /\ index' = index + 1 /\ unwinding' = "no" /\ pc' = "Loop"
       ELSE pc' = "crashed" /\ UNCHANGED <<t, index, unwinding>>
    /\ UNCHANGED output

\* src/suite.go:74: the test method is called; however it ends, the deferred
\* call of line 63 runs next.
BodyCall ==
  \E o \in Outcomes :
    /\ events' = Append(events, Event("Body", Method(index).name, t, "", <<>>))
    /\ Report(o, t, "Body", Method(index).name)
    /\ unwinding' = IF Returns(o) THEN "no" ELSE IF Goexits(o) THEN "goexit" ELSE "panic"
    /\ pc' = "AfterTest"
    /\ UNCHANGED <<t, index, output>>

\* src/suite.go:76 placed before the defer statement: the sub-unit ends
\* without its deferred call.
BodyFatalfBeforeDefer ==
  /\ output' = output \cup
       {[handle |-> TestT(Method(index).name),
         msg |-> Sprintf(fmtTooManyArguments, Method(index).name)]}
  /\ failed' = failed \cup {TestT(Method(index).name), SuiteT}
  /\ t' = SuiteT /\ index' = index + 1 /\ unwinding' = "no" /\ pc' = "Loop"
  /\ UNCHANGED <<events, skipped, abnormal>>

\* src/suite.go:76: testT.Fatalf logs the message, marks the sub-unit (and so
\* its parent) failed and ends the goroutine; the deferred call runs next.
BodyFatalf ==
  /\ output' = output \cup
       {[handle |-> TestT(Method(index).name),
         msg |-> Sprintf(fmtTooManyArguments, Method(index).name)]}
  /\ failed' = failed \cup {TestT(Method(index).name), SuiteT}
  /\ unwinding' = "goexit"
  /\ pc' = "AfterTest"
  /\ UNCHANGED <<t, index, events, skipped, abnormal>>

\* src/suite.go:73-77
Body ==
  /\ pc = "Body"
  /\ IF ArityOk(Method(index)) THEN BodyCall ELSE BodyFatalf
  /\ UNCHANGED <<suite, matchMethod, registered>>

\* How a Goexit inside the deferred call ends the sub-unit: the rest of the
\* deferred call is abandoned. When the goroutine was panicking, the build
\* decides whether the panic still ends the process.
GoexitInDeferred ==
  \/ SubReturn
  \/ unwinding = "panic" /\ Crash

\* src/suite.go:64-66 with the two arguments of line 65 exchanged.
AfterTestSwappedArguments ==
  /\ pc = "AfterTest"
  /\ IF Implements("AfterTest")
     THEN \E o \in HookOutcomes :
            /\ events' = Append(events,
                 Event("AfterTest", Method(index).name, t, Method(index).name, suite.typeName))
            /\ Report(o, t, "AfterTest", Method(index).name)
            /\ IF Returns(o)
               THEN pc' = "TearDownTest" /\ UNCHANGED <<t, index, unwinding>>
               ELSE IF Goexits(o) THEN GoexitInDeferred ELSE Crash
     ELSE /\ pc' = "TearDownTest"
          /\ UNCHANGED <<t, index, unwinding, events, failed, skipped, abnormal>>
  /\ UNCHANGED <<suite, matchMethod, registered, output>>

\* src/suite.go:64-66, the first half of the deferred call.
AfterTest ==
  /\ pc = "AfterTest"
  /\ IF Implements("AfterTest")
     THEN \E o \in HookOutcomes :
            /\ events' = Append(events,
                 Event("AfterTest", Method(index).name, t, suite.typeName, Method(index).name))
            /\ Report(o, t, "AfterTest", Method(index).name)
            /\ IF Returns(o)
               THEN pc' = "TearDownTest" /\ UNCHANGED <<t, index, unwinding>>
               ELSE IF Goexits(o) THEN GoexitInDeferred ELSE Crash
     ELSE /\ pc' = "TearDownTest"
          /\ UNCHANGED <<t, index, unwinding, events, failed, skipped, abnormal>>
  /\ UNCHANGED <<suite, matchMethod, registered, output>>

\* src/suite.go:71-72 and 78-80: the deferred call binds the holder to suiteT
\* and returns; the goroutine ends (or, panicking, the process does).
DeferredReturn ==
  IF unwinding = "panic"
  THEN /\ t' = SuiteT
       /\ pc' = "crashed"
       /\ UNCHANGED <<index, unwinding>>
  ELSE SubReturn

\* src/suite.go:67-72 with the type assertion of line 67 made against
\* TearDownAllSuite, so that TearDownSuite is called after each test.
TearDownTestWrongAssertion ==
  /\ pc = "TearDownTest"
  /\ IF Implements("TearDownSuite")
     THEN \E o \in HookOutcomes :
            /\ events' = Append(events, Event("TearDownSuite", <<>>, t, "", <<>>))
            /\ Report(o, t, "TearDownSuite", <<>>)
            /\ IF Returns(o) THEN DeferredReturn
               ELSE IF Goexits(o) THEN GoexitInDeferred ELSE Crash
     ELSE /\ DeferredReturn
          /\ UNCHANGED <<events, failed, skipped, abnormal>>
  /\ UNCHANGED <<suite, matchMethod, registered, output>>

\* src/suite.go:67-72, the second half of the deferred call.
TearDownTest ==
  /\ pc = "TearDownTest"
  /\ IF Implements("TearDownTest")
     THEN \E o \in HookOutcomes :
            /\ events' = Append(events, Event("TearDownTest", Method(index).name, t, "", <<>>))
            /\ Report(o, t, "TearDownTest", Method(index).name)
            /\ IF Returns(o) THEN DeferredReturn
               ELSE IF Goexits(o) THEN GoexitInDeferred ELSE Crash
     ELSE /\ DeferredReturn
          /\ UNCHANGED <<events, failed, skipped, abnormal>>
  /\ UNCHANGED <<suite, matchMethod, registered, output>>

\* src/suite.go:38-43 with the type assertion of line 40 made against
\* TearDownTestSuite.
TearDownSuiteWrongAssertion ==
  /\ pc = "TearDownSuite"
  /\ t' = SuiteT
  /\ IF Implements("TearDownTest")
     THEN \E o \in HookOutcomes :
            /\ events' = Append(events, Event("TearDownTest", <<>>, SuiteT, "", <<>>))
            /\ Report(o, SuiteT, "TearDownTest", <<>>)
            /\ pc' = IF Returns(o) THEN "returned" ELSE IF Goexits(o) THEN "goexit" ELSE "crashed"
     ELSE /\ pc' = "returned"
          /\ UNCHANGED <<events, failed, skipped, abnormal>>
  /\ UNCHANGED <<suite, matchMethod, index, unwinding, registered, output>>

\* src/suite.go:38-43, the deferred call of Run, run when Run returns.
TearDownSuite ==
  /\ pc = "TearDownSuite"
  /\ t' = SuiteT
  /\ IF Implements("TearDownSuite")
     THEN \E o \in HookOutcomes :
            /\ events' = Append(events, Event("TearDownSuite", <<>>, SuiteT, "", <<>>))
            /\ Report(o, SuiteT, "TearDownSuite", <<>>)
            /\ pc' = IF Returns(o) THEN "returned" ELSE IF Goexits(o) THEN "goexit" ELSE "crashed"
     ELSE /\ pc' = "returned"
          /\ UNCHANGED <<events, failed, skipped, abnormal>>
  /\ UNCHANGED <<suite, matchMethod, index, unwinding, registered, output>>

\* A host that runs the sub-units one after the other: no test calls
\* t.Parallel.
Next ==
  \/ RunSetupSuite /\ UNCHANGED par
  \/ LoopStep /\ UNCHANGED par
  \/ SubRun /\ UNCHANGED par
  \/ SetupTest /\ UNCHANGED par
  \/ BeforeTest /\ UNCHANGED par
  \/ Body /\ UNCHANGED par
  \/ AfterTest /\ UNCHANGED par
  \/ TearDownTest /\ UNCHANGED par
  \/ TearDownSuite /\ UNCHANGED par

Spec == Init /\ [][Next]_vars

\* ------------------------------------------------------------------ t.Parallel

\* The behaviour of a resumed body enumerated here: it returns, or calls
\* suite.T().Fail() and returns.
ResumedOutcomes == {"return", "fail"}

\* The sub-units suspended in t.Parallel so far.
Parked == DOMAIN par

SetPar(name, pos) == [n \in Parked \cup {name} |-> IF n = name THEN pos ELSE par[n]]

\* src/suite.go:74 for a body that calls suite.T().Parallel(): the call reads
\* the holder, the sub-unit's goroutine is suspended with the deferred call of
\* line 63 pending, suiteT.Run returns and line 79 binds the holder to suiteT.
BodyParallel ==
  /\ pc = "Body"
  /\ ArityOk(Method(index))
  /\ events' = Append(events, Event("Body", Method(index).name, t, "", <<>>))
  /\ par' = SetPar(Method(index).name, "paused")
  /\ SubReturn
  /\ UNCHANGED <<suite, matchMethod, registered, failed, skipped, abnormal, output>>

\* testing: the suspended sub-units are released once the function that called
\* Run has returned; the goroutine of Run ending by Goexit releases them too.
Released == pc \in {"returned", "goexit"}

\* src/suite.go:74 after the release, with the holder bound again to the
\* sub-unit's handle before the body goes on.
ResumeBodyRebinds(name) ==
  /\ Released
  /\ name \in Parked
  /\ par[name] = "paused"
  /\ t' = TestT(name)
  /\ \E o \in ResumedOutcomes :
       /\ events' = Append(events, Event("BodyResumed", name, TestT(name), "", <<>>))
       /\ Report(o, TestT(name), "BodyResumed", name)
  /\ par' = SetPar(name, "AfterTest")
  /\ UNCHANGED <<suite, matchMethod, pc, index, unwinding, registered, output>>

\* src/suite.go:74 after the release: the body goes on and reads the holder,
\* which nothing has bound to the sub-unit's handle again. The reads race with
\* the writes of line 71 in the sibling sub-units; every one of those writes
\* stores suiteT, the value already there.
ResumeBody(name) ==
  /\ Released
  /\ name \in Parked
  /\ par[name] = "paused"
  /\ \E o \in ResumedOutcomes :
       /\ events' = Append(events, Event("BodyResumed", name, t, "", <<>>))
       /\ Report(o, t, "BodyResumed", name)
  /\ par' = SetPar(name, "AfterTest")
  /\ UNCHANGED <<suite, matchMethod, pc, index, t, unwinding, registered, output>>

\* src/suite.go:64-66 in a resumed sub-unit.
ResumedAfterTest(name) ==
  /\ Released
  /\ name \in Parked
  /\ par[name] = "AfterTest"
  /\ events' = IF Implements("AfterTest")
                THEN Append(events, Event("AfterTest", name, t, suite.typeName, name))
                ELSE events
  /\ par' = SetPar(name, "TearDownTest")
  /\ UNCHANGED <<suite, matchMethod, pc, index, t, unwinding, registered, failed, skipped, abnormal, output>>

\* src/suite.go:67-72 in a resumed sub-unit: TearDownTest, then line 71.
ResumedTearDownTest(name) ==
  /\ Released
  /\ name \in Parked
  /\ par[name] = "TearDownTest"
  /\ events' = IF Implements("TearDownTest")
                THEN Append(events, Event("TearDownTest", name, t, "", <<>>))
                ELSE events
  /\ t' = SuiteT
  /\ par' = SetPar(name, "done")
  /\ UNCHANGED <<suite, matchMethod, pc, index, unwinding, registered, failed, skipped, abnormal, output>>

\* A host in which a test body may call t.Parallel.
NextPar ==
  \/ Next
  \/ BodyParallel
  \/ \E name \in Parked : ResumeBody(name)
  \/ \E name \in Parked : ResumedAfterTest(name)
  \/ \E name \in Parked : ResumedTearDownTest(name)

SpecPar == Init /\ [][NextPar]_vars

\* ------------------------------------------------------------------ vocabulary

TestPrefix == <<"T","e","s","t">>

\* How often a hook (or "Body") has been called, in all and within one sub-unit.
Count(h) == Cardinality({i \in DOMAIN events : events[i].hook = h})

CountFor(h, name) ==
  Cardinality({i \in DOMAIN events : events[i].hook = h /\ events[i].test = name})

\* The Run call is over: it returned, its goroutine ended by Goexit, or the
\* process ended (os.Exit, a panic).
Ended == pc \in {"returned", "goexit", "exited", "crashed"}

\* The pattern compiles: MatchString returns no error, whatever the name.
PatternCompiles == Balanced(matchMethod, 0)

Aborted(h, name) == \E a \in abnormal : a.hook = h /\ a.test = name

NoHookAborts == \A a \in abnormal : a.hook = "Body"

NoHookAbortsIn(name) == \A a \in abnormal : a.test = name => a.hook = "Body"

NoPanic == \A a \in abnormal : a.how /= "panic"

\* The methods of the suite that start with "Test" and match the pattern.
MethodNames == {AllMethods[i].name : i \in DOMAIN AllMethods}

\* For each pattern and each method name of the model, whether the name starts
\* with "Test" and matches the pattern; tabulated once.
FilterTable ==
  [p \in Patterns |->
     [n \in MethodNames |-> IsPrefix(TestPrefix, n) /\ MatchString(p, n).ok]]

PassesFilter(name) == FilterTable[matchMethod][name]

Matched == {suite.methods[i].name : i \in {j \in DOMAIN suite.methods : PassesFilter(suite.methods[j].name)}}

Registered == {registered[i] : i \in DOMAIN registered}

NumInOf(name) ==
  LET i == CHOOSE j \in DOMAIN suite.methods : suite.methods[j].name = name
  IN suite.methods[i].numIn

SubPcs == {"SetupTest", "BeforeTest", "Body", "AfterTest", "TearDownTest"}

\* The sub-unit of the method is running.
InSub(name) == pc \in SubPcs /\ Method(index).name = name

SubEnded(name) == name \in Registered /\ ~InSub(name)

TestHooks == {"SetupTest", "BeforeTest", "AfterTest", "TearDownTest"}

HookOrder == <<"SetupTest", "BeforeTest", "Body", "AfterTest", "TearDownTest">>

\* The calls a sub-unit makes when it runs to its end, given the capabilities:
\* for a test, and for a method declared with parameters.
ExpectedCalls ==
  LET made(h) == h = "Body" \/ Implements(h)
  IN SelectSeq(HookOrder, made)

ExpectedCallsNoBody ==
  LET made(h) == h /= "Body" /\ Implements(h)
  IN SelectSeq(HookOrder, made)

\* The calls made within the sub-unit of a method, in order.
CallsOf(name) ==
  LET mine(e) == e.test = name
      sel == SelectSeq(events, mine)
  IN [i \in 1..Len(sel) |-> sel[i].hook]

\* ------------------------------------------------------------------ claims

\* C1: when SetupSuite returns normally and the pattern compiles, SetupSuite and
\* TearDownSuite have each been called exactly once (when implemented) by the
\* time the Run call is over, with any number of matched tests and whether
\* their bodies pass, fail, skip or are rejected for their signature; neither
\* is ever called twice, and Run does not stop before it is over.
C1_SuiteHooksExactlyOnce ==
  [](
  /\ Count("SetupSuite") <= 1
  /\ Count("TearDownSuite") <= 1
  /\ ~Ended => ENABLED Next
  /\ (Ended /\ PatternCompiles /\ ~Aborted("SetupSuite", <<>>) /\ NoPanic) =>
       /\ Count("SetupSuite") = (IF Implements("SetupSuite") THEN 1 ELSE 0)
       /\ Count("TearDownSuite") = (IF Implements("TearDownSuite") THEN 1 ELSE 0)
  )

\* C1 witness: Run returned with both hooks called once, after a sub-unit
\* rejected for its signature and a body that ended by Skip or FailNow.
C1_Witness ==
  /\ pc = "returned"
  /\ Count("SetupSuite") = 1
  /\ Count("TearDownSuite") = 1
  /\ nTestBad \in Registered
  /\ \E a \in abnormal : a.hook = "Body" /\ a.how = "goexit"
  /\ SuiteT \in failed

\* C2: within the sub-unit of a test (a matched method taking the receiver
\* alone) whose hooks return normally, the calls are SetupTest, BeforeTest, the
\* body, AfterTest, TearDownTest in that order, each once, and all of them have
\* been made when the sub-unit is over, however the body ends (return, Fail,
\* Skip, FailNow, panic). A method declared with parameters gets the same calls
\* without the body.
C2_PerTestSequence ==
  [](
  \A name \in Registered :
    NoHookAbortsIn(name) =>
      LET expected == IF NumInOf(name) = 1 THEN ExpectedCalls ELSE ExpectedCallsNoBody
      IN /\ IsPrefix(CallsOf(name), expected)
         /\ SubEnded(name) => CallsOf(name) = expected
  )

\* C2 witness: a sub-unit that is over, whose body ended by Skip, with all
\* five calls made.
C2_Witness ==
  \E name \in Registered :
    /\ SubEnded(name)
    /\ NoHookAbortsIn(name)
    /\ Aborted("Body", name)
    /\ TestT(name) \in skipped
    /\ CallsOf(name) = HookOrder

\* C3: when Run returns and no hook aborted, each of SetupTest, BeforeTest,
\* AfterTest, TearDownTest has been called once per method passing the filter
\* (skipping, failing and wrongly declared ones included).
C3_TestHooksNTimes ==
  (pc = "returned" /\ NoHookAborts) =>
    \A h \in TestHooks :
      Count(h) = (IF Implements(h) THEN Cardinality(Matched) ELSE 0)

\* C3 witness: Run returned for two matched methods, one wrongly declared and
\* one skipped, with the four hooks called twice each.
C3_Witness ==
  /\ pc = "returned"
  /\ NoHookAborts
  /\ Cardinality(Matched) = 2
  /\ nTestBad \in Matched
  /\ \E name \in Matched : TestT(name) \in skipped
  /\ \A h \in TestHooks : Count(h) = 2

\* C4: for a pattern that compiles, only methods that start with "Test" and
\* match the pattern are registered as sub-units, none twice, no body is called
\* twice, and once the loop over the method set is through the registered ones
\* are exactly those methods; under the empty pattern those are all the methods
\* that start with "Test".
C4_ExecutedSetIsFilter ==
  [](
  PatternCompiles =>
    /\ \A i \in DOMAIN registered :
         /\ PassesFilter(registered[i])
         /\ \E j \in DOMAIN suite.methods : suite.methods[j].name = registered[i]
    /\ Cardinality(Registered) = Len(registered)
    /\ \A name \in Registered : CountFor("Body", name) <= 1
    /\ index >= NumMethod =>
         /\ Registered = Matched
         /\ matchMethod = <<>> =>
              Registered = {suite.methods[i].name :
                              i \in {j \in DOMAIN suite.methods : IsPrefix(TestPrefix, suite.methods[j].name)}}
  )

\* C4 witness: under the pattern "One", a suite with TestOne and TestTwo has
\* run TestOne alone.
C4_Witness ==
  /\ index >= NumMethod
  /\ matchMethod = <<"O","n","e">>
  /\ \E i \in DOMAIN suite.methods : suite.methods[i].name = nTestTwo
  /\ Registered = {nTestOne}
  /\ CountFor("Body", nTestOne) = 1

\* C5: a method whose name does not start with "Test" is never registered as
\* a sub-unit, never called as a test body, never the subject of a test hook
\* and never the owner of the handle in the holder, whatever the pattern.
C5_NonTestNeverRun ==
  [](
  /\ \A i \in DOMAIN registered : IsPrefix(TestPrefix, registered[i])
  /\ \A i \in DOMAIN events :
       LET e == events[i]
       IN /\ e.test /= <<>> => IsPrefix(TestPrefix, e.test)
          /\ e.test = <<>> => e.hook \in {"SetupSuite", "TearDownSuite"}
          /\ e.testName /= <<>> => e.testName = e.test
  /\ t.kind = "test" => IsPrefix(TestPrefix, t.name)
  )

\* C5 witness: Run returned for a suite with NonTestMethod under a pattern
\* that matches that name, after sub-units ran with their hooks.
C5_Witness ==
  /\ pc = "returned"
  /\ \E i \in DOMAIN suite.methods : suite.methods[i].name = nNonTestMethod
  /\ MatchString(matchMethod, nNonTestMethod).ok
  /\ Registered /= {}
  /\ Count("SetupTest") > 0
  /\ Count("Body") > 0

\* The wording of the failure message the specification fixes.
msgTooManyArguments ==
  <<"t","o","o"," ","m","a","n","y"," ","a","r","g","u","m","e","n","t","s"," ","t","o"," ","m","e","t","h","o","d"," ">>

\* The sub-unit of the method has reached line 73 of src/suite.go.
ReachedBody(name) ==
  /\ name \in Registered
  /\ ~Aborted("SetupTest", name)
  /\ ~Aborted("BeforeTest", name)
  /\ InSub(name) => pc \in {"AfterTest", "TearDownTest"}

\* C6: the body of a matched method declared with parameters is never called;
\* once its sub-unit is past SetupTest and BeforeTest, the sub-unit is marked
\* failed, its log holds "too many arguments to method <name>", and the handle
\* passed to Run is marked failed.
C6_BadSignature ==
  [](
  \A name \in Registered :
    NumInOf(name) /= 1 =>
      /\ CountFor("Body", name) = 0
      /\ ReachedBody(name) =>
           /\ TestT(name) \in failed
           /\ \E m \in output :
                m.handle = TestT(name) /\ Contains(msgTooManyArguments \o name, m.msg)
           /\ SuiteT \in failed
  )

\* C6 witness: Run returned after the sub-unit of TestBad failed with the
\* message and the body of another test was called.
C6_Witness ==
  /\ pc = "returned"
  /\ nTestBad \in Registered
  /\ ReachedBody(nTestBad)
  /\ TestT(nTestBad) \in failed
  /\ \E m \in output : m.handle = TestT(nTestBad)
  /\ nTestOne \in Registered
  /\ CountFor("Body", nTestOne) = 1
  /\ TestT(nTestOne) \notin failed

\* SetupSuite called Skip on the handle passed to Run.
SetupSuiteSkipped ==
  /\ SuiteT \in skipped
  /\ \E a \in abnormal : a.hook = "SetupSuite" /\ a.how = "goexit"

\* C7: when SetupSuite skips, SetupSuite has been called once and
\* TearDownSuite (implemented) is still called once by the end of Run.
C7_SkipInSetupStillTearsDown ==
  (Ended /\ SetupSuiteSkipped /\ Implements("TearDownSuite")) =>
    /\ Count("SetupSuite") = 1
    /\ Count("TearDownSuite") = 1

HasTestMethod == \E i \in DOMAIN suite.methods : IsPrefix(TestPrefix, suite.methods[i].name)

\* C9 as stated: Run never ends on an invalid pattern after SetupSuite has run.
C9_AbortBeforeSetup == pc = "exited" => Count("SetupSuite") = 0

\* C9 amended: when the pattern does not compile and the suite has a method
\* that starts with "Test", Run ends the process with the configuration error
\* when it filters the first such method: after SetupSuite (when implemented)
\* has been called and has returned, before any sub-unit is registered and
\* with no other call made into the suite.
C9_AbortAfterSetup ==
  /\ pc = "exited" =>
       /\ ~PatternCompiles
       /\ Count("SetupSuite") = (IF Implements("SetupSuite") THEN 1 ELSE 0)
       /\ ~Aborted("SetupSuite", <<>>)
       /\ Len(events) = Count("SetupSuite")
       /\ registered = <<>>
       /\ IsPrefix(TestPrefix, Method(index).name)
       /\ \A j \in 0..(index - 1) : ~IsPrefix(TestPrefix, Method(j).name)
  /\ (Ended /\ ~PatternCompiles /\ HasTestMethod /\ ~Aborted("SetupSuite", <<>>)) =>
       pc = "exited"

\* C9 witness: the process ended on the invalid pattern after SetupSuite ran.
C9_Witness ==
  /\ pc = "exited"
  /\ Count("SetupSuite") = 1
  /\ index > 0

\* C10: while a sub-unit runs its hooks and body, the holder is that
\* sub-unit's handle; while Run filters and registers methods, when
\* TearDownSuite is due, and once Run is over without a panic, it is the handle
\* passed to Run; every call into the suite sees the handle of its scope.
C10_HolderScope ==
  /\ pc \in SubPcs => t = TestT(Method(index).name)
  /\ pc \in {"Loop", "SubRun", "TearDownSuite", "returned", "goexit", "exited"} => t = SuiteT
  /\ t.kind = "test" => InSub(t.name) \/ pc = "crashed"
  /\ \A i \in DOMAIN events :
       events[i].handle =
         (IF events[i].hook \in {"SetupSuite", "TearDownSuite"}
          THEN SuiteT ELSE TestT(events[i].test))

\* C10 witness: Run is back in its loop with the holder bound to suiteT after
\* a sub-unit whose TearDownTest ended by Skip, before line 71 was reached.
C10_Witness ==
  /\ pc = "Loop"
  /\ t = SuiteT
  /\ registered /= <<>>
  /\ \E a \in abnormal : a.hook = "TearDownTest" /\ a.how = "goexit"

\* C11: when SetupTest or BeforeTest of a matched test ends by Skip or
\* FailNow, AfterTest and TearDownTest (implemented) are each called once for
\* that test by the time its sub-unit is over.
C11_AbortInSetupStillTearsDown ==
  \A name \in Registered :
    (/\ SubEnded(name)
     /\ \E a \in abnormal :
          a.test = name /\ a.hook \in {"SetupTest", "BeforeTest"} /\ a.how = "goexit") =>
      /\ CountFor("AfterTest", name) = (IF Implements("AfterTest") THEN 1 ELSE 0)
      /\ CountFor("TearDownTest", name) = (IF Implements("TearDownTest") THEN 1 ELSE 0)

\* C12: the call of SetupSuite is the first call into the suite and has
\* returned before any sub-unit is registered; the call of TearDownSuite is the
\* last call into the suite and is made when no sub-unit is running and every
\* registered sub-unit is over.
C12_SuiteHooksBracketSubUnits ==
  [](
  /\ \A i \in DOMAIN events : events[i].hook = "SetupSuite" => i = 1
  /\ \A i \in DOMAIN events : events[i].hook = "TearDownSuite" => i = Len(events)
  /\ (pc \in SubPcs \cup {"SubRun"} \/ registered /= <<>>) =>
       /\ Count("SetupSuite") = (IF Implements("SetupSuite") THEN 1 ELSE 0)
       /\ ~Aborted("SetupSuite", <<>>)
  /\ pc \in SubPcs \cup {"SubRun", "Loop"} => Count("TearDownSuite") = 0
  /\ (pc = "TearDownSuite" \/ Count("TearDownSuite") > 0) =>
       \A name \in Registered : SubEnded(name)
  )

\* C12 witness: Run returned after two sub-units, SetupSuite being the first
\* call and TearDownSuite the last.
C12_Witness ==
  /\ pc = "returned"
  /\ Len(registered) = 2
  /\ Len(events) >= 4
  /\ events[1].hook = "SetupSuite"
  /\ events[Len(events)].hook = "TearDownSuite"
  /\ \E i \in DOMAIN events : events[i].hook = "Body"

IsBefore(e) == e.hook = "BeforeTest"

IsAfter(e) == e.hook = "AfterTest"

BeforeCalls == SelectSeq(events, IsBefore)

AfterCalls == SelectSeq(events, IsAfter)

\* The position of the last BeforeTest call made before position i (0: none).
LastBeforeUpTo(i) ==
  LET S == {j \in 1..i : events[j].hook = "BeforeTest"}
  IN IF S = {} THEN 0 ELSE CHOOSE j \in S : \A k \in S : k <= j

\* C13: every BeforeTest and AfterTest call receives the type name of the suite
\* and the name of the method of the sub-unit it is made in; when the suite
\* implements BeforeTest, the last BeforeTest call made before an AfterTest call
\* carries the same testName; and, while no BeforeTest call has aborted, the
\* k-th AfterTest call carries the testName of the k-th BeforeTest call.
C13_BeforeAfterArguments ==
  [](
  /\ \A i \in DOMAIN events :
       events[i].hook \in {"BeforeTest", "AfterTest"} =>
         /\ events[i].suiteName = SuiteTypeName
         /\ events[i].testName = events[i].test
         /\ events[i].test \in Registered
  /\ Implements("BeforeTest") =>
       \A i \in DOMAIN events :
         events[i].hook = "AfterTest" =>
           /\ LastBeforeUpTo(i) > 0
           /\ events[LastBeforeUpTo(i)].testName = events[i].testName
  /\ (Implements("BeforeTest") /\ \A a \in abnormal : a.hook /= "BeforeTest") =>
       /\ Len(AfterCalls) <= Len(BeforeCalls)
       /\ \A k \in DOMAIN AfterCalls : AfterCalls[k].testName = BeforeCalls[k].testName
  )

\* C13 witness: two sub-units are over, BeforeTest and AfterTest were called
\* for TestBad and then for TestOne with ("SuiteTester", name).
C13_Witness ==
  /\ pc = "returned"
  /\ Len(BeforeCalls) = 2
  /\ Len(AfterCalls) = 2
  /\ BeforeCalls[1].testName = nTestBad /\ AfterCalls[1].testName = nTestBad
  /\ BeforeCalls[2].testName = nTestOne /\ AfterCalls[2].testName = nTestOne
  /\ AfterCalls[2].suiteName = "SuiteTester"

\* The body of name panicked and nothing else ended abnormally.
OnlyBodyPanicked(name) == abnormal = {[hook |-> "Body", test |-> name, how |-> "panic"]}

\* C14: when the body of a test panics (every hook returning normally), by the
\* end of the run AfterTest and TearDownTest have been called once for that
\* test and TearDownSuite has been called exactly once (each when implemented).
C14_PanicStillTearsDown ==
  \A name \in Registered :
    (OnlyBodyPanicked(name) /\ Ended) =>
      /\ CountFor("AfterTest", name) = (IF Implements("AfterTest") THEN 1 ELSE 0)
      /\ CountFor("TearDownTest", name) = (IF Implements("TearDownTest") THEN 1 ELSE 0)
      /\ Count("TearDownSuite") = (IF Implements("TearDownSuite") THEN 1 ELSE 0)

PassesFilterMethod(m) == PassesFilter(m.name)

\* The names of the methods passing the filter, in the order of the method set.
MatchedSeq ==
  LET s == SelectSeq(suite.methods, PassesFilterMethod)
  IN [i \in DOMAIN s |-> s[i].name]

\* C15: under a pattern that compiles, with SetupSuite not aborting and nothing
\* panicking, each time Run is in its loop, registers a sub-unit or leaves the
\* loop, the sub-units registered so far are the first methods passing the
\* filter, in order, whatever the earlier sub-units did (return, Fail, Skip,
\* FailNow, wrong signature, hooks ending by Skip or FailNow); the run ends only
\* after the last of them, with every one registered once, the body of every
\* test whose SetupTest and BeforeTest returned called once, and TearDownSuite
\* called once after them.
C15_ControlReturnsAfterEverySubUnit ==
  (NoPanic /\ ~Aborted("SetupSuite", <<>>) /\ PatternCompiles) =>
    LET matched == MatchedSeq
    IN
    /\ pc \in {"Loop", "SubRun", "SetupTest", "TearDownSuite"} => IsPrefix(registered, matched)
    /\ (pc = "Loop" /\ index < NumMethod /\ PassesFilter(Method(index).name)) =>
         /\ Len(registered) < Len(matched)
         /\ matched[Len(registered) + 1] = Method(index).name
    /\ Ended =>
         /\ pc \in {"returned", "goexit"}
         /\ registered = matched
         /\ Count("TearDownSuite") = (IF Implements("TearDownSuite") THEN 1 ELSE 0)
         /\ Implements("TearDownSuite") => events[Len(events)].hook = "TearDownSuite"
         /\ \A name \in Registered :
              (NumInOf(name) = 1 /\ ~Aborted("SetupTest", name) /\ ~Aborted("BeforeTest", name)) =>
                CountFor("Body", name) = 1

\* C15 witness: Run returned after two sub-units, the first of which failed;
\* the body of the second was still called and TearDownSuite ran after them.
C15_Witness ==
  /\ pc = "returned"
  /\ \E i \in DOMAIN registered :
       /\ i < Len(registered)
       /\ TestT(registered[i]) \in failed
       /\ CountFor("Body", registered[Len(registered)]) = 1
  /\ Len(registered) = 2
  /\ Count("TearDownSuite") = 1

\* C16 as stated: under a pattern that does not compile Run ends the process
\* on the first method of the method set and never completes normally.
C16_InvalidPatternAlwaysAborts ==
  ~PatternCompiles =>
    /\ pc \notin {"TearDownSuite", "returned"}
    /\ pc = "exited" => index = 0

\* C16 amended: under a pattern that does not compile no sub-unit is ever
\* registered; methods that do not start with "Test" are passed over without
\* the pattern being compiled, and the process ends on the first method that
\* starts with "Test"; a suite with no such method goes through the whole
\* method set, TearDownSuite is called and Run completes normally.
C16_InvalidPatternAbortsOnFirstTest ==
  ~PatternCompiles =>
    /\ registered = <<>>
    /\ \A i \in DOMAIN events : events[i].hook \in {"SetupSuite", "TearDownSuite"}
    /\ pc \in {"Loop", "exited"} =>
         \A j \in 0..(index - 1) : ~IsPrefix(TestPrefix, Method(j).name)
    /\ pc = "exited" => IsPrefix(TestPrefix, Method(index).name)
    /\ pc \in {"TearDownSuite", "returned"} => ~HasTestMethod
    /\ (Ended /\ ~HasTestMethod /\ abnormal = {}) =>
         /\ pc = "returned"
         /\ Count("TearDownSuite") = (IF Implements("TearDownSuite") THEN 1 ELSE 0)

\* C16 witness: under the pattern "(" Run has completed normally for a suite
\* whose only own method is NonTestMethod, with TearDownSuite called.
C16_Witness ==
  /\ ~PatternCompiles
  /\ pc = "returned"
  /\ \E i \in DOMAIN suite.methods : suite.methods[i].name = nNonTestMethod
  /\ Count("SetupSuite") = 1
  /\ Count("TearDownSuite") = 1

\* C17: when AfterTest of a test ends by Skip or FailNow, TearDownTest
\* (implemented) has been called once for that test when its sub-unit is over.
C17_AfterTestAbortStillTearsDown ==
  \A name \in Registered :
    (/\ SubEnded(name)
     /\ Implements("TearDownTest")
     /\ [hook |-> "AfterTest", test |-> name, how |-> "goexit"] \in abnormal) =>
      CountFor("TearDownTest", name) = 1

\* C18: a sub-unit that is over never leaves its handle in the holder, also
\* when one of its calls ended by Skip or FailNow: whenever Run filters or
\* registers the next method or is about to call TearDownSuite the holder is
\* the handle passed to Run, and TearDownSuite is called with that handle.
C18_HolderRestoredAfterAbort ==
  /\ \A name \in Registered : (SubEnded(name) /\ pc /= "crashed") => t /= TestT(name)
  /\ (index > 0 /\ pc \in {"Loop", "SubRun", "TearDownSuite"}) => t = SuiteT
  /\ pc = "SetupTest" => t = TestT(registered[Len(registered)])
  /\ \A i \in DOMAIN events : events[i].hook = "TearDownSuite" => events[i].handle = SuiteT

\* C18 witness: TearDownSuite was called with the handle passed to Run after
\* two sub-units, in each of which a hook ended by Skip or FailNow.
C18_Witness ==
  /\ Len(registered) = 2
  /\ \A i \in DOMAIN registered :
       \E a \in abnormal : a.test = registered[i] /\ a.hook \in TestHooks /\ a.how = "goexit"
  /\ Count("TearDownSuite") = 1
  /\ events[Len(events)].hook = "TearDownSuite"
  /\ events[Len(events)].handle = SuiteT
  /\ t = SuiteT

BodySideCalls == {"Body", "BodyResumed", "AfterTest", "TearDownTest"}

\* C19 as stated: under a host that runs sub-units concurrently, every read of
\* the holder by a test's body, AfterTest or TearDownTest returns the handle of
\* that test's sub-unit.
C19_ReadsOwnHandle ==
  \A i \in DOMAIN events :
    events[i].hook \in BodySideCalls => events[i].handle = TestT(events[i].test)

\* C19 amended: a body reads its own handle up to the point where it suspends
\* its sub-unit, and so do the hooks of a sub-unit that never suspends; once a
\* suspended sub-unit is released, the rest of its body, its AfterTest and its
\* TearDownTest read the handle passed to Run, never a sibling's handle and
\* never their own; the holder is the handle passed to Run during the whole
\* release.
C19_ResumedReadsSuiteHandle ==
  /\ \A i \in DOMAIN events :
       /\ events[i].hook = "Body" => events[i].handle = TestT(events[i].test)
       /\ (events[i].hook \in TestHooks /\ events[i].test \notin Parked) =>
            events[i].handle = TestT(events[i].test)
       /\ (events[i].hook \in {"BodyResumed", "AfterTest", "TearDownTest"}
             /\ events[i].test \in Parked) =>
            events[i].handle = SuiteT
       /\ events[i].hook = "BodyResumed" => events[i].test \in Parked
  /\ \A name \in Parked :
       /\ name \in Registered
       /\ par[name] /= "paused" => (Released /\ t = SuiteT)
       /\ CountFor("Body", name) = 1
       /\ CountFor("BodyResumed", name) = (IF par[name] = "paused" THEN 0 ELSE 1)
  /\ (Released /\ Parked /= {}) => t = SuiteT

\* C19 witness: two sub-units were suspended and released; the rest of both
\* bodies, and then AfterTest and TearDownTest of both, read the handle passed
\* to Run.
C19_Witness ==
  /\ Cardinality(Parked) = 2
  /\ \A name \in Parked :
       /\ par[name] = "done"
       /\ \E i \in DOMAIN events :
            /\ events[i].hook = "BodyResumed"
            /\ events[i].test = name
            /\ events[i].handle = SuiteT
       /\ \E i \in DOMAIN events :
            /\ events[i].hook = "TearDownTest"
            /\ events[i].test = name
            /\ events[i].handle = SuiteT
  /\ SuiteT \in failed

====
